---------------------------- MODULE Spec2Model ----------------------------
(***************************************************************************)
(* Model of the exact axis-aligned box engine of aoc_util/src/cuboid.rs:   *)
(* the Cuboid value type (new, contains, extensions, difference, volume,   *)
(* intersection, intersects), the PolyCuboid collection of disjoint        *)
(* cuboids (insert, delete, volume) and the PolyHashCuboid voxel set used  *)
(* by the tests as a brute-force reference.                                *)
(*                                                                         *)
(* Two specifications:                                                     *)
(*   Spec      a PolyCuboid and a PolyHashCuboid driven by the same        *)
(*             sequence of insert/delete calls, starting from new();       *)
(*   SpecCuboid  the pure Cuboid functions applied to inputs drawn from a  *)
(*             bounded coordinate universe.                                *)
(***************************************************************************)
EXTENDS Integers, Sequences, FiniteSets

VARIABLES
    cuboids,    \* PolyCuboid.cuboids : Vec<Cuboid>
    voxels,     \* PolyHashCuboid.voxels : HashSet<(i64, i64, i64)>
    hist,       \* the calls made so far on both collections, in order
    pc,         \* SpecCuboid: which function has been applied ("start" before)
    a,          \* SpecCuboid: first box argument (self)
    b,          \* SpecCuboid: second box argument (other)
    args,       \* SpecCuboid: the six integers handed to Cuboid::new
    out,        \* SpecCuboid: the value returned
    run         \* SpecReboot: position and locals of part_1 on simple_test6

vars == <<cuboids, voxels, hist, pc, a, b, args, out, run>>

(***************************************************************************)
(* Bounds of the model.                                                    *)
(***************************************************************************)
\* SpecCuboid: coordinates range over 0..MaxCoord on each axis.
MaxCoord == 2
\* Spec: boxes handed to insert/delete have x in 0..PolyMaxX and y, z in
\* 0..PolyMaxYZ.
PolyMaxX == 2
PolyMaxYZ == 1
\* Spec: number of insert/delete calls in a run.
MaxOps == 3
\* SpecInsert: insert is called on a PolyCuboid of at most this many members,
\* with boxes of coordinates 0..InsertMaxCoord on every axis
MaxMembers == 3
InsertMaxCoord == 1
\* the width of i64, scaled down: the coordinates and volumes are two's
\* complement integers of IntBits bits
IntBits == 24

Coord == 0..MaxCoord
PolyCoordX == 0..PolyMaxX
PolyCoordYZ == 0..PolyMaxYZ
InsertCoord == 0..InsertMaxCoord

(***************************************************************************)
(* Rust values.                                                            *)
(***************************************************************************)
\* Err(..) of AocResult, as returned by failure(..)
Err == [err |-> "Invalid cuboid: require coord0 <= coord1"]
\* Option::None
None == [none |-> TRUE]

(***************************************************************************)
(* Vec helpers.                                                            *)
(***************************************************************************)
\* Vec::swap_remove(j): removes element j, putting the last element in its
\* place (j is 1-based here).
swap_remove(v, j) ==
    LET n == Len(v)
    IN  IF j = n THEN SubSeq(v, 1, n - 1)
        ELSE [k \in 1..(n - 1) |-> IF k = j THEN v[n] ELSE v[k]]

\* i64::MIN and i64::MAX at the scaled width
IntMin == -(2 ^ (IntBits - 1))
IntMax == 2 ^ (IntBits - 1) - 1

\* The i64 that an exact result x wraps to where overflow is not checked.
wrap(x) == ((x - IntMin) % (2 ^ IntBits)) + IntMin

\* The exact result x does not fit an i64: with overflow checks the
\* operation panics ("attempt to add with overflow").
overflows(x) == x < IntMin \/ x > IntMax

\* +, - and * on i64 in a build without overflow checks
i64_add(x, y) == wrap(x + y)
i64_sub(x, y) == wrap(x - y)
i64_mul(x, y) == wrap(x * y)

\* The cargo profiles: dev (overflow checks and debug assertions on) and
\* release (both off).
Builds == {"debug", "release"}

max(x, y) == IF x >= y THEN x ELSE y
min(x, y) == IF x <= y THEN x ELSE y

(***************************************************************************)
(* Cuboid                                                                  *)
(***************************************************************************)
\* mutant: the z axis is not checked
new_unchecked_z(x0, x1, y0, y1, z0, z1) ==
    IF x0 > x1 \/ y0 > y1
    THEN Err
    ELSE [x0 |-> x0, x1 |-> x1, y0 |-> y0, y1 |-> y1, z0 |-> z0, z1 |-> z1]

\* Cuboid::new
new(x0, x1, y0, y1, z0, z1) ==
    IF x0 > x1 \/ y0 > y1 \/ z0 > z1
    THEN Err
    ELSE [x0 |-> x0, x1 |-> x1, y0 |-> y0, y1 |-> y1, z0 |-> z0, z1 |-> z1]

\* Cuboid::new(..).unwrap() applied to a tuple of six coordinates; an Err
\* (a panic of unwrap) stays visible as Err.
new_unwrap(co) == new(co[1], co[2], co[3], co[4], co[5], co[6])

\* Cuboid::contains
contains(self, other) ==
    /\ self.x0 <= other.x0
    /\ self.x1 >= other.x1
    /\ self.y0 <= other.y0
    /\ self.y1 >= other.y1
    /\ self.z0 <= other.z0
    /\ self.z1 >= other.z1

\* mutant: the extents are taken as hi - lo, without the + 1 of closed ranges
volume_exclusive(self) ==
    (self.x1 - self.x0) * (self.y1 - self.y0) * (self.z1 - self.z0)

\* Cuboid::volume
volume(self) ==
    i64_mul(i64_mul(i64_add(i64_sub(self.x1, self.x0), 1),
                    i64_add(i64_sub(self.y1, self.y0), 1)),
            i64_add(i64_sub(self.z1, self.z0), 1))

\* Cuboid::volume with overflow checks: some step of the expression
\* overflows.
volume_overflows(self) ==
    LET dx == self.x1 - self.x0
        dy == self.y1 - self.y0
        dz == self.z1 - self.z0
    IN  \/ overflows(dx) \/ overflows(dx + 1)
        \/ overflows(dy) \/ overflows(dy + 1)
        \/ overflows((dx + 1) * (dy + 1))
        \/ overflows(dz) \/ overflows(dz + 1)
        \/ overflows((dx + 1) * (dy + 1) * (dz + 1))

\* mutant: boxes that share only one layer of cells on x do not intersect
intersection_strict_x(self, other) ==
    LET xl == IF self.x0 <= other.x0 THEN self ELSE other
        xr == IF self.x0 <= other.x0 THEN other ELSE self
    IN  IF xl.x1 <= xr.x0 \/ max(self.y0, other.y0) > min(self.y1, other.y1)
           \/ max(self.z0, other.z0) > min(self.z1, other.z1)
        THEN None
        ELSE [x0 |-> max(xl.x0, xr.x0), x1 |-> min(xl.x1, xr.x1),
              y0 |-> max(self.y0, other.y0), y1 |-> min(self.y1, other.y1),
              z0 |-> max(self.z0, other.z0), z1 |-> min(self.z1, other.z1)]

\* mutant: the low x bound is taken from self, not from the right-hand box
intersection_self_lo(self, other) ==
    IF \/ max(self.x0, other.x0) > min(self.x1, other.x1)
       \/ max(self.y0, other.y0) > min(self.y1, other.y1)
       \/ max(self.z0, other.z0) > min(self.z1, other.z1)
    THEN None
    ELSE [x0 |-> self.x0, x1 |-> min(self.x1, other.x1),
          y0 |-> max(self.y0, other.y0), y1 |-> min(self.y1, other.y1),
          z0 |-> max(self.z0, other.z0), z1 |-> min(self.z1, other.z1)]

\* Cuboid::intersection
intersection(self, other) ==
    LET xl == IF self.x0 <= other.x0 THEN self ELSE other
        xr == IF self.x0 <= other.x0 THEN other ELSE self
        yl == IF self.y0 <= other.y0 THEN self ELSE other
        yr == IF self.y0 <= other.y0 THEN other ELSE self
        zl == IF self.z0 <= other.z0 THEN self ELSE other
        zr == IF self.z0 <= other.z0 THEN other ELSE self
    IN  IF xl.x1 < xr.x0 THEN None
        ELSE IF yl.y1 < yr.y0 THEN None
        ELSE IF zl.z1 < zr.z0 THEN None
        ELSE new_unwrap(<<max(xl.x0, xr.x0), min(xl.x1, xr.x1),
                          max(yl.y0, yr.y0), min(yl.y1, yr.y1),
                          max(zl.z0, zr.z0), min(zl.z1, zr.z1)>>)

\* mutant: boxes that share only one layer of cells on z do not intersect
intersects_strict_z(self, other) ==
    LET zl == IF self.z0 <= other.z0 THEN self ELSE other
        zr == IF self.z0 <= other.z0 THEN other ELSE self
    IN  /\ max(self.x0, other.x0) <= min(self.x1, other.x1)
        /\ max(self.y0, other.y0) <= min(self.y1, other.y1)
        /\ ~(zl.z1 <= zr.z0)

\* Cuboid::intersects
intersects(self, other) ==
    LET xl == IF self.x0 <= other.x0 THEN self ELSE other
        xr == IF self.x0 <= other.x0 THEN other ELSE self
        yl == IF self.y0 <= other.y0 THEN self ELSE other
        yr == IF self.y0 <= other.y0 THEN other ELSE self
        zl == IF self.z0 <= other.z0 THEN self ELSE other
        zr == IF self.z0 <= other.z0 THEN other ELSE self
    IN  IF xl.x1 < xr.x0 THEN FALSE
        ELSE IF yl.y1 < yr.y0 THEN FALSE
        ELSE IF zl.z1 < zr.z0 THEN FALSE
        ELSE TRUE

\* The 26 candidate coordinate tuples of Cuboid::extensions, in source order.
extension_candidates(self, other) == <<
    \* FA: X+, Y+, X-, Y-, Z+, Z-
    <<i64_add(self.x1, 1), other.x1, self.y0, self.y1, self.z0, self.z1>>,
    <<self.x0, self.x1, i64_add(self.y1, 1), other.y1, self.z0, self.z1>>,
    <<other.x0, i64_sub(self.x0, 1), self.y0, self.y1, self.z0, self.z1>>,
    <<self.x0, self.x1, other.y0, i64_sub(self.y0, 1), self.z0, self.z1>>,
    <<self.x0, self.x1, self.y0, self.y1, i64_add(self.z1, 1), other.z1>>,
    <<self.x0, self.x1, self.y0, self.y1, other.z0, i64_sub(self.z0, 1)>>,
    \* AA Above
    <<i64_add(self.x1, 1), other.x1, self.y0, self.y1, i64_add(self.z1, 1), other.z1>>,
    <<self.x0, self.x1, i64_add(self.y1, 1), other.y1, i64_add(self.z1, 1), other.z1>>,
    <<other.x0, i64_sub(self.x0, 1), self.y0, self.y1, i64_add(self.z1, 1), other.z1>>,
    <<self.x0, self.x1, other.y0, i64_sub(self.y0, 1), i64_add(self.z1, 1), other.z1>>,
    \* AA Below
    <<i64_add(self.x1, 1), other.x1, self.y0, self.y1, other.z0, i64_sub(self.z0, 1)>>,
    <<self.x0, self.x1, i64_add(self.y1, 1), other.y1, other.z0, i64_sub(self.z0, 1)>>,
    <<other.x0, i64_sub(self.x0, 1), self.y0, self.y1, other.z0, i64_sub(self.z0, 1)>>,
    <<self.x0, self.x1, other.y0, i64_sub(self.y0, 1), other.z0, i64_sub(self.z0, 1)>>,
    \* Corners
    <<i64_add(self.x1, 1), other.x1, i64_add(self.y1, 1), other.y1, i64_add(self.z1, 1), other.z1>>,
    <<other.x0, i64_sub(self.x0, 1), i64_add(self.y1, 1), other.y1, i64_add(self.z1, 1), other.z1>>,
    <<other.x0, i64_sub(self.x0, 1), other.y0, i64_sub(self.y0, 1), i64_add(self.z1, 1), other.z1>>,
    <<i64_add(self.x1, 1), other.x1, other.y0, i64_sub(self.y0, 1), i64_add(self.z1, 1), other.z1>>,
    <<i64_add(self.x1, 1), other.x1, i64_add(self.y1, 1), other.y1, self.z0, self.z1>>,
    <<other.x0, i64_sub(self.x0, 1), i64_add(self.y1, 1), other.y1, self.z0, self.z1>>,
    <<other.x0, i64_sub(self.x0, 1), other.y0, i64_sub(self.y0, 1), self.z0, self.z1>>,
    <<i64_add(self.x1, 1), other.x1, other.y0, i64_sub(self.y0, 1), self.z0, self.z1>>,
    <<i64_add(self.x1, 1), other.x1, i64_add(self.y1, 1), other.y1, other.z0, i64_sub(self.z0, 1)>>,
    <<other.x0, i64_sub(self.x0, 1), i64_add(self.y1, 1), other.y1, other.z0, i64_sub(self.z0, 1)>>,
    <<other.x0, i64_sub(self.x0, 1), other.y0, i64_sub(self.y0, 1), other.z0, i64_sub(self.z0, 1)>>,
    <<i64_add(self.x1, 1), other.x1, other.y0, i64_sub(self.y0, 1), other.z0, i64_sub(self.z0, 1)>> >>

\* mutant: the test drops a candidate that is one layer thick at the far
\* face of `other` (>= and <= for > and <)
extension_kept_strict(co, other) ==
    ~(\/ co[1] >= other.x1
      \/ co[2] <= other.x0
      \/ co[3] >= other.y1
      \/ co[4] <= other.y0
      \/ co[5] >= other.z1
      \/ co[6] <= other.z0)

\* The test of the `for co in a` loop of Cuboid::extensions.
extension_kept(co, other) ==
    ~(\/ co[1] > other.x1
      \/ co[2] < other.x0
      \/ co[3] > other.y1
      \/ co[4] < other.y0
      \/ co[5] > other.z1
      \/ co[6] < other.z0)

\* Vec of new_unwrap(co) for the kept co of v, in order.
RECURSIVE push_kept(_, _)
push_kept(v, other) ==
    IF v = <<>> THEN <<>>
    ELSE IF extension_kept(Head(v), other)
         THEN <<new_unwrap(Head(v))>> \o push_kept(Tail(v), other)
         ELSE push_kept(Tail(v), other)

\* mutant: the X+ face starts at self.x1 instead of self.x1 + 1
extensions_offbyone(self, other) ==
    push_kept([extension_candidates(self, other) EXCEPT ![1][1] = self.x1], other)

\* mutant: the X+ face spans the y range of other instead of self
extensions_wide_face(self, other) ==
    push_kept([extension_candidates(self, other) EXCEPT
                   ![1][3] = other.y0, ![1][4] = other.y1], other)

\* mutant: the last entry of the table (the X+ Y- Z- corner) is missing
extensions_drops_last(self, other) ==
    push_kept(SubSeq(extension_candidates(self, other), 1, 25), other)

\* Cuboid::extensions
extensions(self, other) == push_kept(extension_candidates(self, other), other)

\* Cuboid::extensions with overflow checks: the array a is built whole, so
\* every self.c1 + 1 and self.c0 - 1 is computed.
extensions_overflows(self, other) ==
    \/ overflows(self.x1 + 1) \/ overflows(self.x0 - 1)
    \/ overflows(self.y1 + 1) \/ overflows(self.y0 - 1)
    \/ overflows(self.z1 + 1) \/ overflows(self.z0 - 1)

\* The `for ext in intersection.extensions(self)` loop of Cuboid::difference.
RECURSIVE reclip(_, _)
reclip(self, exts) ==
    IF exts = <<>> THEN <<>>
    ELSE LET inter == intersection(self, Head(exts))
         IN  IF inter # None
             THEN <<inter>> \o reclip(self, Tail(exts))
             ELSE reclip(self, Tail(exts))

\* mutant: a box that `other` contains is kept whole instead of dropped
difference_keeps_contained(self, other) ==
    IF contains(other, self) THEN <<self>>
    ELSE LET inter == intersection(self, other)
         IN  IF inter # None
             THEN reclip(self, extensions(inter, self))
             ELSE <<self>>

\* mutant: without an intersection the result clones `other`, not `self`
difference_clones_other(self, other) ==
    IF contains(other, self) THEN <<>>
    ELSE LET inter == intersection(self, other)
         IN  IF inter # None
             THEN reclip(self, extensions(inter, self))
             ELSE <<other>>

\* mutant: the extensions are clipped against other instead of self
difference_reclips_other(self, other) ==
    IF contains(other, self) THEN <<>>
    ELSE LET inter == intersection(self, other)
         IN  IF inter # None
             THEN reclip(other, extensions(inter, self))
             ELSE <<self>>

\* Cuboid::difference
difference(self, other) ==
    IF contains(other, self) THEN <<>>
    ELSE LET inter == intersection(self, other)
         IN  IF inter # None
             THEN reclip(self, extensions(inter, self))
             ELSE <<self>>

\* Cuboid::difference with overflow checks: its call of extensions overflows.
difference_overflows(self, other) ==
    /\ ~contains(other, self)
    /\ intersection(self, other) # None
    /\ extensions_overflows(intersection(self, other), self)

\* mutant: the parts of self outside other are appended
union_difference_swapped(self, other) ==
    IF contains(self, other) THEN <<self>>
    ELSE IF contains(other, self) THEN <<other>>
    ELSE IF intersects(self, other) THEN <<self>> \o difference(self, other)
    ELSE <<self, other>>

\* mutant: boxes that overlap partly are returned as they are
union_no_split(self, other) ==
    IF contains(self, other) THEN <<self>>
    ELSE IF contains(other, self) THEN <<other>>
    ELSE <<self, other>>

\* Cuboid::union
union(self, other) ==
    IF contains(self, other) THEN <<self>>
    ELSE IF contains(other, self) THEN <<other>>
    ELSE IF intersects(self, other) THEN <<self>> \o difference(other, self)
    ELSE <<self, other>>

\* Cuboid::union with overflow checks: its call of difference overflows.
union_overflows(self, other) ==
    /\ ~contains(self, other) /\ ~contains(other, self)
    /\ intersects(self, other)
    /\ difference_overflows(other, self)

\* panic!(..): the call does not return
Panic(msg) == [panic |-> msg]

\* The panic of an overflow check ("attempt to add with overflow", or
\* subtract, or multiply).
OverflowPanic == Panic("attempt to compute with overflow")

\* Cuboid::set_coord: self after the call
set_coord(self, i, value) ==
    CASE i = 0 -> [self EXCEPT !.x0 = value]
      [] i = 1 -> [self EXCEPT !.x1 = value]
      [] i = 2 -> [self EXCEPT !.y0 = value]
      [] i = 3 -> [self EXCEPT !.y1 = value]
      [] i = 4 -> [self EXCEPT !.z0 = value]
      [] i = 5 -> [self EXCEPT !.z1 = value]
      [] OTHER -> Panic(<<"Bad coordinate index ", i>>)

\* Rust's / on i64: the quotient truncated toward zero.
div(x, y) == IF x >= 0 THEN x \div y ELSE -((-x) \div y)

\* Ok(v) of AocResult
Ok(v) == [ok |-> v]

\* Err(..) of AocResult, as returned by failure(format!(..)) in Cuboid::split:
\* the message carries the Debug form of the box.
SplitErr(self) == [err |-> <<"Cuboid ", self, " is too small to split!">>]

\* mutant: a box two cells long on an axis is refused too
too_small_offbyone(self) ==
    self.x1 - self.x0 <= 1 \/ self.y1 - self.y0 <= 1 \/ self.z1 - self.z0 <= 1

\* The test that opens Cuboid::split.
too_small(self) ==
    self.x0 = self.x1 \/ self.y0 = self.y1 \/ self.z0 = self.z1

\* mutant: the upper half starts where the lower half ends
segment_lengths_overlap(len) == <<div(len, 2), div(len, 2)>>

\* mutant: the halves are cut one cell lower
segment_lengths_low_cut(len) == <<div(len - 1, 2), div(len - 1, 2) + 1>>

\* The segment lengths xsl, ysl, zsl of Cuboid::split.
segment_lengths(len) == <<div(len, 2), i64_add(div(len, 2), 1)>>

\* The eight Cuboid::new(..)? of Cuboid::split, in source order.
octants(self) ==
    LET xsl == segment_lengths(i64_sub(self.x1, self.x0))
        ysl == segment_lengths(i64_sub(self.y1, self.y0))
        zsl == segment_lengths(i64_sub(self.z1, self.z0))
    IN  << new(self.x0, i64_add(self.x0, xsl[1]), self.y0, i64_add(self.y0, ysl[1]),
               self.z0, i64_add(self.z0, zsl[1])),
           new(i64_add(self.x0, xsl[2]), self.x1, self.y0, i64_add(self.y0, ysl[1]),
               self.z0, i64_add(self.z0, zsl[1])),
           new(self.x0, i64_add(self.x0, xsl[1]), i64_add(self.y0, ysl[2]), self.y1,
               self.z0, i64_add(self.z0, zsl[1])),
           new(i64_add(self.x0, xsl[2]), self.x1, i64_add(self.y0, ysl[2]), self.y1,
               self.z0, i64_add(self.z0, zsl[1])),
           new(self.x0, i64_add(self.x0, xsl[1]), self.y0, i64_add(self.y0, ysl[1]),
               i64_add(self.z0, zsl[2]), self.z1),
           new(i64_add(self.x0, xsl[2]), self.x1, self.y0, i64_add(self.y0, ysl[1]),
               i64_add(self.z0, zsl[2]), self.z1),
           new(self.x0, i64_add(self.x0, xsl[1]), i64_add(self.y0, ysl[2]), self.y1,
               i64_add(self.z0, zsl[2]), self.z1),
           new(i64_add(self.x0, xsl[2]), self.x1, i64_add(self.y0, ysl[2]), self.y1,
               i64_add(self.z0, zsl[2]), self.z1) >>

\* Cuboid::split with overflow checks: a length overflows (the later sums
\* stay between lo and hi).
split_overflows(self) ==
    /\ ~too_small(self)
    /\ \/ overflows(self.x1 - self.x0)
       \/ overflows(self.y1 - self.y0)
       \/ overflows(self.z1 - self.z0)

\* Cuboid::split: the ? after each Cuboid::new returns its Err.
split(self) ==
    IF too_small(self) THEN SplitErr(self)
    ELSE LET o == octants(self)
         IN  IF \E i \in 1..8 : o[i] = Err THEN Err ELSE Ok(o)

(***************************************************************************)
(* PolyCuboid                                                              *)
(***************************************************************************)
\* The exact sum of the members' volumes.
RECURSIVE volume_sum(_)
volume_sum(cs) ==
    IF cs = <<>> THEN 0
    ELSE volume(Head(cs)) + volume_sum(Tail(cs))

\* PolyCuboid::volume: the fold `acc + c.volume()` over the members from 0;
\* adding with wrap-around member by member gives the exact sum wrapped once.
PolyCuboid_volume(cs) == wrap(volume_sum(cs))

\* mutant: the intersects branch replaces the piece but does not set overlap
RECURSIVE insert_scan_no_flag(_, _, _)
insert_scan_no_flag(c, others, j) ==
    IF j > Len(others) THEN [others |-> others, hit |-> FALSE]
    ELSE IF contains(c, others[j])
         THEN [others |-> swap_remove(others, j), hit |-> TRUE]
    ELSE IF intersects(others[j], c)
         THEN [others |-> swap_remove(others, j) \o difference(others[j], c),
               hit |-> FALSE]
    ELSE insert_scan_no_flag(c, others, j + 1)

\* mutant: only the first piece of the worklist is tested against c
insert_scan_first_only(c, others, j) ==
    IF j > Len(others) \/ j > 1 THEN [others |-> others, hit |-> FALSE]
    ELSE IF contains(c, others[j])
         THEN [others |-> swap_remove(others, j), hit |-> TRUE]
    ELSE IF intersects(others[j], c)
         THEN [others |-> swap_remove(others, j) \o difference(others[j], c),
               hit |-> TRUE]
    ELSE [others |-> others, hit |-> FALSE]

\* mutant: a piece that intersects c stays in the worklist as it is
RECURSIVE insert_scan_keeps_worklist(_, _, _)
insert_scan_keeps_worklist(c, others, j) ==
    IF j > Len(others) THEN [others |-> others, hit |-> FALSE]
    ELSE IF contains(c, others[j])
         THEN [others |-> swap_remove(others, j), hit |-> TRUE]
    ELSE IF intersects(others[j], c)
         THEN [others |-> others, hit |-> TRUE]
    ELSE insert_scan_keeps_worklist(c, others, j + 1)

\* The inner `for (j, other) in others.iter().enumerate()` loop of insert
\* for one member c, from index j on: the worklist it leaves and whether
\* it set overlap (it breaks at the first piece c contains or intersects).
RECURSIVE insert_scan(_, _, _)
insert_scan(c, others, j) ==
    IF j > Len(others) THEN [others |-> others, hit |-> FALSE]
    ELSE IF contains(c, others[j])
         THEN [others |-> swap_remove(others, j), hit |-> TRUE]
    ELSE IF intersects(others[j], c)
         THEN [others |-> swap_remove(others, j) \o difference(others[j], c),
               hit |-> TRUE]
    ELSE insert_scan(c, others, j + 1)

\* mutant: skip_i is assigned after every member, without `if !overlap`
RECURSIVE insert_pass_always_skips(_, _, _, _)
insert_pass_always_skips(cs, skip, i, st) ==
    IF skip + i + 1 > Len(cs) THEN st
    ELSE LET r  == insert_scan(cs[skip + i + 1], st.others, 1)
         IN  insert_pass_always_skips(cs, skip, i + 1,
                 [others  |-> r.others,
                  overlap |-> st.overlap \/ r.hit,
                  skip_i  |-> i])

\* The `for (i, c) in self.iter().skip(skip_i).enumerate()` loop of insert,
\* from enumerate index i on; `skip` is the value skip_i had when the loop
\* began, st = [others, overlap, skip_i] the locals.
RECURSIVE insert_pass(_, _, _, _)
insert_pass(cs, skip, i, st) ==
    IF skip + i + 1 > Len(cs) THEN st
    ELSE LET r  == insert_scan(cs[skip + i + 1], st.others, 1)
             ov == st.overlap \/ r.hit
         IN  insert_pass(cs, skip, i + 1,
                 [others  |-> r.others,
                  overlap |-> ov,
                  skip_i  |-> IF ~ov THEN i ELSE st.skip_i])

\* The `while overlap` loop of insert, entered with overlap = true.
RECURSIVE insert_while(_, _)
insert_while(cs, st) ==
    LET r == insert_pass(cs, st.skip_i, 0,
                 [others |-> st.others, overlap |-> FALSE, skip_i |-> st.skip_i])
    IN  IF r.overlap THEN insert_while(cs, r) ELSE r

\* The same for loop over self.iter() with no skip: every member is scanned,
\* from member index i (0-based) on; st = [others, overlap].
RECURSIVE insert_pass_noskip(_, _, _)
insert_pass_noskip(cs, i, st) ==
    IF i + 1 > Len(cs) THEN st
    ELSE LET r == insert_scan(cs[i + 1], st.others, 1)
         IN  insert_pass_noskip(cs, i + 1,
                 [others |-> r.others, overlap |-> st.overlap \/ r.hit])

\* The same `while overlap` loop with skip_i fixed at 0.
RECURSIVE insert_while_noskip(_, _)
insert_while_noskip(cs, others) ==
    LET r == insert_pass_noskip(cs, 0, [others |-> others, overlap |-> FALSE])
    IN  IF r.overlap THEN insert_while_noskip(cs, r.others) ELSE r.others

\* mutant: the box itself is appended, not the worklist left by the loop
PolyCuboid_insert_append(cs, other) == cs \o <<other>>

\* mutant: the worklist is put in front of the members
PolyCuboid_insert_front(cs, other) ==
    insert_while(cs, [others |-> <<other>>, overlap |-> TRUE, skip_i |-> 0]).others
    \o cs

\* PolyCuboid::insert: the member Vec after the call.
PolyCuboid_insert(cs, other) ==
    cs \o insert_while(cs, [others |-> <<other>>, overlap |-> TRUE, skip_i |-> 0]).others

\* mutant: receiver and argument of difference are exchanged
RECURSIVE PolyCuboid_delete_swapped(_, _)
PolyCuboid_delete_swapped(cs, other) ==
    IF cs = <<>> THEN <<>>
    ELSE difference(other, Head(cs)) \o PolyCuboid_delete_swapped(Tail(cs), other)

\* mutant: each member is replaced by its intersection with the box
RECURSIVE PolyCuboid_delete_intersection(_, _)
PolyCuboid_delete_intersection(cs, other) ==
    IF cs = <<>> THEN <<>>
    ELSE (IF intersection(Head(cs), other) = None
          THEN <<>> ELSE <<intersection(Head(cs), other)>>)
         \o PolyCuboid_delete_intersection(Tail(cs), other)

\* mutant: the loop stops after the first member
PolyCuboid_delete_first_only(cs, other) ==
    IF cs = <<>> THEN <<>>
    ELSE difference(Head(cs), other) \o Tail(cs)

\* mutant: each member's pieces are put in front of post_delete
RECURSIVE PolyCuboid_delete_reversed(_, _)
PolyCuboid_delete_reversed(cs, other) ==
    IF cs = <<>> THEN <<>>
    ELSE PolyCuboid_delete_reversed(Tail(cs), other) \o difference(Head(cs), other)

\* PolyCuboid::delete: the member Vec after the call.
RECURSIVE PolyCuboid_delete(_, _)
PolyCuboid_delete(cs, other) ==
    IF cs = <<>> THEN <<>>
    ELSE difference(Head(cs), other) \o PolyCuboid_delete(Tail(cs), other)

(***************************************************************************)
(* PolyHashCuboid                                                          *)
(***************************************************************************)
\* The (x, y, z) visited by the three nested loops over a box's ranges.
cells(c) ==
    {<<x, y, z>> : x \in c.x0..c.x1, y \in c.y0..c.y1, z \in c.z0..c.z1}

\* PolyHashCuboid::volume
PolyHashCuboid_volume(vs) == Cardinality(vs)

\* PolyHashCuboid::insert
PolyHashCuboid_insert(vs, other) == vs \cup cells(other)

\* PolyHashCuboid::delete
PolyHashCuboid_delete(vs, other) == vs \ cells(other)

(***************************************************************************)
(* Inputs                                                                  *)
(***************************************************************************)
\* The boxes Cuboid::new accepts with x in X, y in Y and z in Z.
ValidBoxes(X, Y, Z) ==
    {new(x0, x1, y0, y1, z0, z1) :
        x0 \in X, x1 \in X, y0 \in Y, y1 \in Y, z0 \in Z, z1 \in Z} \ {Err}

Boxes == ValidBoxes(Coord, Coord, Coord)
PolyBoxes == ValidBoxes(PolyCoordX, PolyCoordYZ, PolyCoordYZ)
InsertBoxes == ValidBoxes(InsertCoord, InsertCoord, InsertCoord)
Idle == [idle |-> TRUE]
\* the indices passed to get_coord and set_coord: the six fields and one
\* index the match does not name
CoordIndex == 0..6

(***************************************************************************)
(* Spec: PolyCuboid::new(), then insert / delete calls                     *)
(***************************************************************************)
Init ==
    /\ cuboids = <<>>
    /\ voxels = {}
    /\ hist = <<>>
    /\ pc = "poly"
    /\ a = Idle /\ b = Idle /\ args = Idle /\ out = Idle
    /\ run = Idle

Insert ==
    /\ Len(hist) < MaxOps
    /\ \E c \in PolyBoxes :
        /\ cuboids' = PolyCuboid_insert(cuboids, c)
        /\ voxels' = PolyHashCuboid_insert(voxels, c)
        /\ hist' = Append(hist, [op |-> "insert", box |-> c])
    /\ UNCHANGED <<pc, a, b, args, out, run>>

Delete ==
    /\ Len(hist) < MaxOps
    /\ \E c \in PolyBoxes :
        /\ cuboids' = PolyCuboid_delete(cuboids, c)
        /\ voxels' = PolyHashCuboid_delete(voxels, c)
        /\ hist' = Append(hist, [op |-> "delete", box |-> c])
    /\ UNCHANGED <<pc, a, b, args, out, run>>

Next == Insert \/ Delete

Spec == Init /\ [][Next]_vars

(***************************************************************************)
(* SpecInsert: insert after insert into one PolyCuboid, the argument of    *)
(* the last call in args.  The calls made are not recorded, so that        *)
(* PolyCuboids of more members are reached than under Spec.                *)
(***************************************************************************)
InsertNext ==
    /\ pc \in {"poly", "insert"}
    /\ Len(cuboids) <= MaxMembers
    /\ \E c \in InsertBoxes :
        /\ cuboids' = PolyCuboid_insert(cuboids, c)
        /\ voxels' = PolyHashCuboid_insert(voxels, c)
        /\ args' = c
    /\ pc' = "insert"
    /\ UNCHANGED <<hist, a, b, out, run>>

NextInsert == InsertNext

SpecInsert == Init /\ [][NextInsert]_vars

(***************************************************************************)
(* SpecReboot: part_1 of bin/22.rs on the lines of simple_test6, one loop   *)
(* iteration per step.  cuboids holds polycuboid.cuboids, pc the position   *)
(* in part_1, insert, delete or volume, run the locals.                     *)
(***************************************************************************)
\* The lines of tests::simple_test6, each as its on/off word and the six
\* numbers of its "x=..,y=..,z=.." part.
simple_test6 == <<
    <<"on", -20, 26, -36, 17, -47, 7>>,
    <<"on", -20, 33, -21, 23, -26, 28>>,
    <<"on", -22, 28, -29, 23, -38, 16>>,
    <<"on", -46, 7, -6, 46, -50, -1>>,
    <<"on", -49, 1, -3, 46, -24, 28>>,
    <<"on", 2, 47, -22, 22, -23, 27>>,
    <<"on", -27, 23, -28, 26, -21, 29>>,
    <<"on", -39, 5, -6, 47, -3, 44>>,
    <<"on", -30, 21, -8, 43, -13, 34>>,
    <<"on", -22, 26, -27, 20, -29, 19>>,
    <<"off", -48, -32, 26, 41, -47, -37>>,
    <<"on", -12, 35, 6, 50, -50, -2>>,
    <<"off", -48, -32, -32, -16, -15, -5>>,
    <<"on", -18, 26, -33, 15, -7, 46>>,
    <<"off", -40, -22, -38, -28, 23, 41>>,
    <<"on", -16, 35, -41, 10, -47, 6>>,
    <<"off", -32, -23, 11, 30, -14, 3>>,
    <<"on", -49, -5, -3, 45, -29, 18>> >>

\* mutant: every line switches its box on
to_state_always_on(word) == TRUE

\* The match on the first word of a line in parse_input.
to_state(word) ==
    CASE word = "on" -> TRUE
      [] word = "off" -> FALSE
      [] OTHER -> [err |-> "Bad on/off"]

\* parse_input: an Op per line; from_str ends in Cuboid::new.
parse_input(lines) ==
    [n \in 1..Len(lines) |->
        [to_state |-> to_state(lines[n][1]),
         cuboid   |-> new(lines[n][2], lines[n][3], lines[n][4],
                          lines[n][5], lines[n][6], lines[n][7])]]

\* filter_cuboid and filtered_ops of part_1.
filter_cuboid == new(-50, 50, -50, 50, -50, 50)
InFilter(o) == contains(filter_cuboid, o.cuboid)
filtered_ops(ops) == SelectSeq(ops, InFilter)

\* The ops part_1 runs in simple_test6.
RebootOps == filtered_ops(parse_input(simple_test6))

NoLocals == [k |-> 1, i |-> 0, skip |-> 0, skip_i |-> 0, overlap |-> FALSE,
             others |-> <<>>, post_delete |-> <<>>, acc |-> 0]

InitReboot ==
    /\ cuboids = <<>> /\ voxels = {} /\ hist = <<>>
    /\ a = Idle /\ b = Idle /\ args = Idle /\ out = Idle
    /\ pc = "for op"
    /\ run = NoLocals

\* `for op in filtered_ops`: the next op, or the call of volume.
RebootNextOp ==
    /\ pc = "for op"
    /\ IF run.k > Len(RebootOps)
       THEN /\ pc' = "volume"
            /\ run' = [run EXCEPT !.i = 0, !.acc = 0]
       ELSE IF RebootOps[run.k].to_state
       THEN /\ pc' = "while overlap"
            /\ run' = [run EXCEPT !.others = <<RebootOps[run.k].cuboid>>,
                                  !.overlap = TRUE, !.skip_i = 0]
       ELSE /\ pc' = "delete"
            /\ run' = [run EXCEPT !.post_delete = <<>>, !.i = 0]
    /\ UNCHANGED <<cuboids, voxels, hist, a, b, args, out>>

\* insert: the test of `while overlap`, then either the start of a pass or
\* the append after the loop.
RebootWhile ==
    /\ pc = "while overlap"
    /\ IF run.overlap
       THEN /\ pc' = "for c"
            /\ run' = [run EXCEPT !.overlap = FALSE, !.skip = run.skip_i,
                                  !.i = 0]
            /\ UNCHANGED cuboids
       ELSE /\ pc' = "for op"
            /\ cuboids' = cuboids \o run.others
            /\ run' = [run EXCEPT !.k = run.k + 1, !.others = <<>>]
    /\ UNCHANGED <<voxels, hist, a, b, args, out>>

\* insert: one member c of `self.iter().skip(skip_i).enumerate()`.
RebootMember ==
    /\ pc = "for c"
    /\ IF run.skip + run.i + 1 > Len(cuboids)
       THEN /\ pc' = "while overlap"
            /\ run' = run
       ELSE LET r  == insert_scan(cuboids[run.skip + run.i + 1], run.others, 1)
                ov == run.overlap \/ r.hit
            IN  /\ pc' = "for c"
                /\ run' = [run EXCEPT !.others = r.others, !.overlap = ov,
                               !.skip_i = IF ~ov THEN run.i ELSE run.skip_i,
                               !.i = run.i + 1]
    /\ UNCHANGED <<cuboids, voxels, hist, a, b, args, out>>

\* delete: one member c of `self.iter()`, or the assignment after the loop.
RebootDelete ==
    /\ pc = "delete"
    /\ IF run.i + 1 > Len(cuboids)
       THEN /\ pc' = "for op"
            /\ cuboids' = run.post_delete
            /\ run' = [run EXCEPT !.k = run.k + 1, !.post_delete = <<>>]
       ELSE /\ pc' = "delete"
            /\ run' = [run EXCEPT
                    !.post_delete = run.post_delete \o
                        difference(cuboids[run.i + 1], RebootOps[run.k].cuboid),
                    !.i = run.i + 1]
            /\ UNCHANGED cuboids
    /\ UNCHANGED <<voxels, hist, a, b, args, out>>

\* volume: one step of the fold, or Ok(polycuboid.volume()).
RebootVolume ==
    /\ pc = "volume"
    /\ IF run.i + 1 > Len(cuboids)
       THEN /\ pc' = "done"
            /\ out' = Ok(run.acc)
            /\ run' = run
       ELSE /\ pc' = "volume"
            /\ run' = [run EXCEPT !.acc = i64_add(run.acc, volume(cuboids[run.i + 1])),
                                  !.i = run.i + 1]
            /\ UNCHANGED out
    /\ UNCHANGED <<cuboids, voxels, hist, a, b, args>>

NextReboot ==
    \/ RebootNextOp \/ RebootWhile \/ RebootMember
    \/ RebootDelete \/ RebootVolume

SpecReboot == InitReboot /\ [][NextReboot]_vars

(***************************************************************************)
(* SpecLoop: insert step by step on a PolyCuboid built by inserts and       *)
(* deletes of drawn boxes                                                   *)
(***************************************************************************)
\* A call of insert with a drawn box: the three `let mut` lines.
LoopInsert ==
    /\ pc = "for op"
    /\ run.k <= MaxOps
    /\ \E c \in InsertBoxes :
        /\ args' = c
        /\ run' = [run EXCEPT !.others = <<c>>, !.overlap = TRUE, !.skip_i = 0]
    /\ pc' = "while overlap"
    /\ UNCHANGED <<cuboids, voxels, hist, a, b, out>>

\* A whole call of delete with a drawn box.
LoopDelete ==
    /\ pc = "for op"
    /\ run.k <= MaxOps
    /\ cuboids # <<>>
    /\ \E d \in InsertBoxes :
        /\ args' = d
        /\ cuboids' = PolyCuboid_delete(cuboids, d)
    /\ run' = [run EXCEPT !.k = run.k + 1]
    /\ UNCHANGED <<pc, voxels, hist, a, b, out>>

NextLoop == LoopInsert \/ LoopDelete \/ RebootWhile \/ RebootMember

SpecLoop == InitReboot /\ [][NextLoop]_vars

(***************************************************************************)
(* SpecCuboid: the Cuboid functions on drawn inputs                        *)
(***************************************************************************)
InitCuboid ==
    /\ cuboids = <<>> /\ voxels = {} /\ hist = <<>>
    /\ pc = "start"
    /\ out = Idle
    /\ run = Idle
    /\ \/ /\ args \in Coord \X Coord \X Coord \X Coord \X Coord \X Coord
          /\ a = Idle /\ b = Idle
       \/ /\ a \in Boxes /\ b = Idle
          /\ args = Idle
       \/ /\ a \in Boxes /\ b \in Boxes
          /\ args = Idle

DoNew ==
    /\ pc = "start" /\ args # Idle
    /\ out' = new(args[1], args[2], args[3], args[4], args[5], args[6])
    /\ pc' = "new"
    /\ UNCHANGED <<cuboids, voxels, hist, a, b, args, run>>

DoDifference ==
    /\ pc = "start" /\ a # Idle /\ b # Idle
    /\ \E build \in Builds :
        IF build = "debug" /\ difference_overflows(a, b)
        THEN out' = OverflowPanic /\ pc' = "panic"
        ELSE out' = difference(a, b) /\ pc' = "difference"
    /\ UNCHANGED <<cuboids, voxels, hist, a, b, args, run>>

DoExtensions ==
    /\ pc = "start" /\ a # Idle /\ b # Idle
    /\ contains(b, a)
    /\ \E build \in Builds :
        IF build = "debug" /\ extensions_overflows(a, b)
        THEN out' = OverflowPanic /\ pc' = "panic"
        ELSE out' = extensions(a, b) /\ pc' = "extensions"
    /\ UNCHANGED <<cuboids, voxels, hist, a, b, args, run>>

DoSplit ==
    /\ pc = "start" /\ a # Idle /\ b = Idle
    /\ \E build \in Builds :
        IF build = "debug" /\ split_overflows(a)
        THEN out' = OverflowPanic /\ pc' = "panic"
        ELSE out' = split(a) /\ pc' = "split"
    /\ UNCHANGED <<cuboids, voxels, hist, a, b, args, run>>

DoIntersection ==
    /\ pc = "start" /\ a # Idle /\ b # Idle
    /\ out' = intersection(a, b)
    /\ pc' = "intersection"
    /\ UNCHANGED <<cuboids, voxels, hist, a, b, args, run>>

DoUnion ==
    /\ pc = "start" /\ a # Idle /\ b # Idle
    /\ \E build \in Builds :
        IF build = "debug" /\ union_overflows(a, b)
        THEN out' = OverflowPanic /\ pc' = "panic"
        ELSE out' = union(a, b) /\ pc' = "union"
    /\ UNCHANGED <<cuboids, voxels, hist, a, b, args, run>>

\* c.set_coord(i, value) on the box c that Cuboid::new returned
DoSetCoord ==
    /\ pc = "new" /\ out # Err
    /\ \E i \in CoordIndex, value \in Coord :
        out' = set_coord(out, i, value)
    /\ pc' = "set_coord"
    /\ UNCHANGED <<cuboids, voxels, hist, a, b, args, run>>

DoVolume ==
    /\ pc = "start" /\ a # Idle /\ b = Idle
    /\ \E build \in Builds :
        IF build = "debug" /\ volume_overflows(a)
        THEN out' = OverflowPanic /\ pc' = "panic"
        ELSE out' = volume(a) /\ pc' = "volume"
    /\ UNCHANGED <<cuboids, voxels, hist, a, b, args, run>>

NextCuboid ==
    \/ DoNew \/ DoDifference \/ DoExtensions \/ DoSplit
    \/ DoIntersection \/ DoUnion \/ DoSetCoord \/ DoVolume

SpecCuboid == InitCuboid /\ [][NextCuboid]_vars

(***************************************************************************)
(* SpecEdge: the same Cuboid functions on boxes that reach i64::MIN and     *)
(* i64::MAX on the x axis.                                                  *)
(***************************************************************************)
EdgeCoord == {IntMin, IntMin + 1, 0, IntMax - 1, IntMax}
EdgeBoxes == ValidBoxes(EdgeCoord, PolyCoordYZ, PolyCoordYZ)

InitEdge ==
    /\ cuboids = <<>> /\ voxels = {} /\ hist = <<>>
    /\ pc = "start"
    /\ out = Idle
    /\ run = Idle
    /\ \/ /\ args \in EdgeCoord \X EdgeCoord \X PolyCoordYZ \X PolyCoordYZ
                       \X PolyCoordYZ \X PolyCoordYZ
          /\ a = Idle /\ b = Idle
       \/ /\ a \in EdgeBoxes /\ b = Idle
          /\ args = Idle
       \/ /\ a \in EdgeBoxes /\ b \in EdgeBoxes
          /\ args = Idle

SpecEdge == InitEdge /\ [][NextCuboid]_vars

(***************************************************************************)
(* Properties                                                              *)
(***************************************************************************)
\* c is a Cuboid value: six coordinates with lo <= hi on every axis.
IsCuboid(c) ==
    /\ DOMAIN c = {"x0", "x1", "y0", "y1", "z0", "z1"}
    /\ c.x0 <= c.x1 /\ c.y0 <= c.y1 /\ c.z0 <= c.z1

\* The unit cell v = (x, y, z) lies in box c.
InBox(v, c) ==
    /\ c.x0 <= v[1] /\ v[1] <= c.x1
    /\ c.y0 <= v[2] /\ v[2] <= c.y1
    /\ c.z0 <= v[3] /\ v[3] <= c.z1

\* Boxes c and d share a unit cell.
Overlap(c, d) == \E v \in cells(c) : InBox(v, d)

\* No two boxes of the sequence v share a unit cell.
PairwiseDisjoint(v) ==
    \A i, j \in 1..Len(v) : i < j => ~Overlap(v[i], v[j])

\* Sum of the volumes of the boxes of the sequence v.
RECURSIVE SumVolumes(_)
SumVolumes(v) == IF v = <<>> THEN 0 ELSE volume(Head(v)) + SumVolumes(Tail(v))

\* C3: a.difference(b) is an exact disjoint cover of a minus b: its boxes
\* are pairwise non-intersecting, each is contained in a, none intersects b,
\* and every unit cell in a but not in b lies in exactly one returned box.
C3_DifferenceExactCover ==
    pc = "difference" =>
        /\ \A i \in 1..Len(out) :
            /\ IsCuboid(out[i])
            /\ \A v \in cells(out[i]) : InBox(v, a) /\ ~InBox(v, b)
        /\ PairwiseDisjoint(out)
        /\ \A v \in cells(a) :
            ~InBox(v, b) =>
                Cardinality({i \in 1..Len(out) : InBox(v, out[i])}) = 1

\* b is strictly inside a on every axis, so a minus b needs all 26 directions.
C3_Witness ==
    /\ pc = "difference"
    /\ Len(out) = 26
    /\ a.x0 < b.x0 /\ b.x1 < a.x1

\* C4: the volumes of the boxes of a.difference(b) sum to a.volume() minus
\* the volume of a.intersection(b), taken as 0 when there is none.
C4_DifferenceVolume ==
    pc = "difference" =>
        SumVolumes(out) =
            volume(a) - (IF intersection(a, b) = None
                         THEN 0 ELSE volume(intersection(a, b)))

\* a partial overlap: b cuts a without containing it, several pieces remain.
C4_Witness ==
    /\ pc = "difference"
    /\ intersection(a, b) # None
    /\ ~contains(b, a) /\ ~contains(a, b)
    /\ volume(intersection(a, b)) >= 2
    /\ Len(out) >= 2

\* C5: with outer.contains(inner), inner.extensions(outer) returns at most
\* 26 boxes, no two of which intersect and none of which intersects inner
\* (the two debug assertions at the end of extensions).
C5_ExtensionsDisjoint ==
    pc = "extensions" =>
        /\ Len(out) <= 26
        /\ \A i \in 1..Len(out) :
            /\ IsCuboid(out[i])
            /\ ~intersects(out[i], a)
            /\ ~Overlap(out[i], a)
        /\ \A i, j \in 1..Len(out) : i = j \/ ~intersects(out[i], out[j])
        /\ PairwiseDisjoint(out)

\* inner strictly inside outer: all 26 extensions are emitted.
C5_Witness ==
    /\ pc = "extensions"
    /\ contains(b, a)
    /\ Len(out) = 26

\* C8: if b.contains(a) then a.difference(b) is the empty sequence; in
\* particular b.difference(b) is empty.
C8_DifferenceContainedEmpty ==
    (pc = "difference" /\ contains(b, a)) => out = <<>>

\* a proper sub-box of b, and its difference is empty.
C8_Witness ==
    /\ pc = "difference"
    /\ contains(b, a) /\ a # b
    /\ out = <<>>

\* C9: if a and b do not intersect, a.difference(b) is the one-element
\* sequence [a].
C9_DifferenceDisjointIdentity ==
    (pc = "difference" /\ ~Overlap(a, b)) => out = <<a>>

\* two boxes that touch face to face without sharing a cell.
C9_Witness ==
    /\ pc = "difference"
    /\ ~Overlap(a, b)
    /\ a.x1 + 1 = b.x0
    /\ out = <<a>>

\* C10: Cuboid::new(x0,x1,y0,y1,z0,z1) returns an error if and only if
\* x0 > x1 or y0 > y1 or z0 > z1; otherwise it returns a box holding exactly
\* those six coordinates (axes with lo = hi are accepted).
C10_NewRejectsExactlyInverted ==
    pc = "new" =>
        /\ out = Err <=> (args[1] > args[2] \/ args[3] > args[4] \/ args[5] > args[6])
        /\ out # Err =>
            /\ DOMAIN out = {"x0", "x1", "y0", "y1", "z0", "z1"}
            /\ <<out.x0, out.x1, out.y0, out.y1, out.z0, out.z1>> = args

\* a single-layer box on every axis is accepted.
C10_Witness ==
    /\ pc = "new"
    /\ args[1] = args[2] /\ args[3] = args[4] /\ args[5] = args[6]
    /\ out # Err

\* C1: starting from PolyCuboid::new(), after every insert and delete no two
\* distinct members of the collection intersect.
C1_MembersPairwiseDisjoint ==
    /\ \A i \in 1..Len(cuboids) : IsCuboid(cuboids[i])
    /\ PairwiseDisjoint(cuboids)
    /\ \A i, j \in 1..Len(cuboids) :
        i # j => ~intersects(cuboids[i], cuboids[j])

\* two overlapping inserts and a delete that cuts them leave several members.
C1_Witness ==
    /\ Len(hist) = 3
    /\ hist[1].op = "insert" /\ hist[2].op = "insert" /\ hist[3].op = "delete"
    /\ Overlap(hist[1].box, hist[2].box)
    /\ Len(cuboids) >= 4

\* The scenario of polycuboid_tests::polycuboid_delete, on both collections.
ScenarioC1 == new(0, 1, 0, 1, 0, 1)
ScenarioC2 == new(1, 2, 1, 2, 1, 2)
ScenarioVolumes ==
    LET p1 == PolyCuboid_insert(<<>>, ScenarioC1)
        p2 == PolyCuboid_insert(p1, ScenarioC2)
        p3 == PolyCuboid_delete(p2, ScenarioC1)
        p4 == PolyCuboid_delete(p3, ScenarioC2)
    IN  <<PolyCuboid_volume(p1), PolyCuboid_volume(p2),
          PolyCuboid_volume(p3), PolyCuboid_volume(p4)>>
ScenarioVoxelVolumes ==
    LET h1 == PolyHashCuboid_insert({}, ScenarioC1)
        h2 == PolyHashCuboid_insert(h1, ScenarioC2)
        h3 == PolyHashCuboid_delete(h2, ScenarioC1)
        h4 == PolyHashCuboid_delete(h3, ScenarioC2)
    IN  <<PolyHashCuboid_volume(h1), PolyHashCuboid_volume(h2),
          PolyHashCuboid_volume(h3), PolyHashCuboid_volume(h4)>>

\* C2: after every insert/delete, PolyCuboid::volume() equals the number of
\* unit cells of the voxel set driven by the same calls; insert (0,1,0,1,0,1)
\* gives 8, insert (1,2,1,2,1,2) gives 15, delete the first gives 7, delete
\* the second gives 0.
C2_VolumeMatchesVoxels ==
    /\ PolyCuboid_volume(cuboids) = PolyHashCuboid_volume(voxels)
    /\ hist = <<>> =>
        /\ ScenarioVolumes = <<8, 15, 7, 0>>
        /\ ScenarioVoxelVolumes = ScenarioVolumes

\* a delete between two inserts, the last insert overlapping what was left.
C2_Witness ==
    /\ Len(hist) = 3
    /\ hist[1].op = "insert" /\ hist[2].op = "delete" /\ hist[3].op = "insert"
    /\ Overlap(hist[1].box, hist[2].box)
    /\ Overlap(hist[1].box, hist[3].box)
    /\ ~contains(hist[2].box, hist[1].box)
    /\ PolyCuboid_volume(cuboids) >= 6
    /\ PolyCuboid_volume(cuboids) = PolyHashCuboid_volume(voxels)

\* C6: inserting a box that was already inserted, with no delete since,
\* changes nothing: the member sequence, hence volume(), is the same after
\* the second insert as before it.
C6_InsertIdempotent ==
    [][(\E k \in 1..Len(hist) :
            /\ \A m \in k..Len(hist) : hist[m].op = "insert"
            /\ hist' = Append(hist, hist[k]))
       => (/\ cuboids' = cuboids
           /\ PolyCuboid_volume(cuboids') = PolyCuboid_volume(cuboids))]_vars

\* the repeated box had been split on its first insert.
C6_Witness ==
    /\ Len(hist) = 3
    /\ hist[1].op = "insert" /\ hist[2].op = "insert" /\ hist[3] = hist[2]
    /\ Overlap(hist[1].box, hist[2].box)
    /\ ~contains(hist[1].box, hist[2].box)
    /\ Len(cuboids) >= 3

\* C7: from an empty PolyCuboid, insert(b) followed by delete(b) leaves no
\* members and volume() = 0; delete(b) on an empty PolyCuboid leaves
\* volume() = 0 too.
C7_InsertDeleteInverse ==
    /\ (/\ Len(hist) = 2
        /\ hist[1].op = "insert"
        /\ hist[2] = [op |-> "delete", box |-> hist[1].box])
       => (cuboids = <<>> /\ PolyCuboid_volume(cuboids) = 0)
    /\ (Len(hist) = 1 /\ hist[1].op = "delete")
       => (cuboids = <<>> /\ PolyCuboid_volume(cuboids) = 0)

\* the whole universe inserted, then deleted.
C7_Witness ==
    /\ Len(hist) = 2
    /\ hist[1].op = "insert" /\ hist[2].op = "delete"
    /\ hist[1].box = hist[2].box
    /\ volume(hist[1].box) >= 8
    /\ cuboids = <<>>

\* The number of cells of the closed range lo..hi.
RangeLen(lo, hi) == hi - lo + 1

\* C11: for every box b with lo < hi on all three axes, b.split() succeeds
\* and its 8 octants tile b exactly: they are pairwise non-intersecting,
\* each is contained in b, every unit cell of b lies in exactly one octant,
\* and their volumes sum to b.volume().
C11_SplitTilesExactly ==
    (pc = "split" /\ a.x0 < a.x1 /\ a.y0 < a.y1 /\ a.z0 < a.z1) =>
        /\ DOMAIN out = {"ok"}
        /\ Len(out.ok) = 8
        /\ \A i \in 1..8 :
            /\ IsCuboid(out.ok[i])
            /\ \A v \in cells(out.ok[i]) : InBox(v, a)
        /\ PairwiseDisjoint(out.ok)
        /\ \A v \in cells(a) :
            Cardinality({i \in 1..8 : InBox(v, out.ok[i])}) = 1
        /\ SumVolumes(out.ok) = volume(a)

\* a box three cells long on x and two on y is split into eight octants.
C11_Witness ==
    /\ pc = "split"
    /\ RangeLen(a.x0, a.x1) = 3 /\ RangeLen(a.y0, a.y1) = 2
    /\ a.z0 < a.z1
    /\ DOMAIN out = {"ok"}
    /\ Len(out.ok) = 8

\* The lower and upper octants' ranges on each axis: octant 1 is lower on
\* every axis, octant 8 upper on every axis.
SplitLowerLens ==
    <<RangeLen(out.ok[1].x0, out.ok[1].x1),
      RangeLen(out.ok[1].y0, out.ok[1].y1),
      RangeLen(out.ok[1].z0, out.ok[1].z1)>>
SplitUpperLens ==
    <<RangeLen(out.ok[8].x0, out.ok[8].x1),
      RangeLen(out.ok[8].y0, out.ok[8].y1),
      RangeLen(out.ok[8].z0, out.ok[8].z1)>>
SplitAxisLens ==
    <<RangeLen(a.x0, a.x1), RangeLen(a.y0, a.y1), RangeLen(a.z0, a.z1)>>

\* Every octant has the lower range or the upper range on each axis.
SplitRangesUniform ==
    \A i \in 1..8 :
        /\ <<out.ok[i].x0, out.ok[i].x1>> \in
            {<<out.ok[1].x0, out.ok[1].x1>>, <<out.ok[8].x0, out.ok[8].x1>>}
        /\ <<out.ok[i].y0, out.ok[i].y1>> \in
            {<<out.ok[1].y0, out.ok[1].y1>>, <<out.ok[8].y0, out.ok[8].y1>>}
        /\ <<out.ok[i].z0, out.ok[i].z1>> \in
            {<<out.ok[1].z0, out.ok[1].z1>>, <<out.ok[8].z0, out.ok[8].z1>>}

\* C12 as stated: on an axis with an odd number of cells the upper half has
\* exactly one more cell than the lower half; with an even number the halves
\* are equal.
C12_ExtraCellUpper ==
    (pc = "split" /\ DOMAIN out = {"ok"}) =>
        \A k \in 1..3 :
            IF SplitAxisLens[k] % 2 = 1
            THEN SplitUpperLens[k] = SplitLowerLens[k] + 1
            ELSE SplitUpperLens[k] = SplitLowerLens[k]

\* C12 amended: on an axis with an odd number of cells the lower half has
\* exactly one more cell than the upper half; with an even number the halves
\* are equal.
C12_ExtraCellLower ==
    (pc = "split" /\ DOMAIN out = {"ok"}) =>
        /\ SplitRangesUniform
        /\ \A k \in 1..3 :
            IF SplitAxisLens[k] % 2 = 1
            THEN SplitLowerLens[k] = SplitUpperLens[k] + 1
            ELSE SplitLowerLens[k] = SplitUpperLens[k]

\* an axis of three cells split into two cells below and one above.
C12_Witness ==
    /\ pc = "split" /\ DOMAIN out = {"ok"}
    /\ SplitAxisLens[1] = 3 /\ SplitAxisLens[2] = 2
    /\ SplitLowerLens[1] = 2 /\ SplitUpperLens[1] = 1

\* C13: b.split() returns an error if and only if b has lo = hi on at least
\* one axis; for every other valid box none of the eight Cuboid::new fails
\* and eight boxes are returned.
C13_SplitErrorIffFlat ==
    pc = "split" =>
        /\ ("err" \in DOMAIN out) <=> (a.x0 = a.x1 \/ a.y0 = a.y1 \/ a.z0 = a.z1)
        /\ ~(a.x0 = a.x1 \/ a.y0 = a.y1 \/ a.z0 = a.z1) =>
            /\ out # Err
            /\ DOMAIN out = {"ok"}
            /\ \A i \in 1..8 : IsCuboid(out.ok[i])

\* a box flat on one axis only is refused.
C13_Witness ==
    /\ pc = "split"
    /\ a.x0 < a.x1 /\ a.y0 < a.y1 /\ a.z0 = a.z1
    /\ out = SplitErr(a)

\* C14: for all valid boxes a and b, a.intersection(b) is None exactly when
\* max(lo_a, lo_b) > min(hi_a, hi_b) on at least one axis, and otherwise is
\* the box whose range on each axis is (max(lo_a, lo_b), min(hi_a, hi_b));
\* its cells are exactly the cells common to a and b.
C14_IntersectionPerAxis ==
    pc = "intersection" =>
        LET empty == \/ max(a.x0, b.x0) > min(a.x1, b.x1)
                     \/ max(a.y0, b.y0) > min(a.y1, b.y1)
                     \/ max(a.z0, b.z0) > min(a.z1, b.z1)
        IN  /\ (out = None) <=> empty
            /\ ~empty =>
                /\ out = [x0 |-> max(a.x0, b.x0), x1 |-> min(a.x1, b.x1),
                          y0 |-> max(a.y0, b.y0), y1 |-> min(a.y1, b.y1),
                          z0 |-> max(a.z0, b.z0), z1 |-> min(a.z1, b.z1)]
                /\ cells(out) = cells(a) \cap cells(b)
            /\ empty => cells(a) \cap cells(b) = {}

\* two boxes that share exactly one layer of cells on x, neither containing
\* the other.
C14_Witness ==
    /\ pc = "intersection"
    /\ a.x1 = b.x0 /\ a.x0 < a.x1 /\ b.x0 < b.x1
    /\ a.y0 < b.y0 /\ b.y0 <= a.y1 /\ a.y1 < b.y1
    /\ out # None
    /\ out.x0 = out.x1

\* C15: for all valid boxes a and b, a.union(b) is [a] if a contains b, [b]
\* if b contains a (and a does not contain b), and otherwise is a followed
\* by the boxes of b.difference(a) in order.
C15_UnionShape ==
    pc = "union" =>
        IF \A v \in cells(b) : InBox(v, a) THEN out = <<a>>
        ELSE IF \A v \in cells(a) : InBox(v, b) THEN out = <<b>>
        ELSE /\ out = <<a>> \o difference(b, a)
             /\ PairwiseDisjoint(out)
             /\ \A v \in cells(a) \cup cells(b) :
                    \E i \in 1..Len(out) : InBox(v, out[i])

\* a and b overlap partly: a is followed by at least two pieces of b.
C15_Witness ==
    /\ pc = "union"
    /\ intersects(a, b) /\ ~contains(a, b) /\ ~contains(b, a)
    /\ Len(out) >= 3
    /\ out[1] = a

\* The Cuboid values held by the value an operation returned.
OutCuboids ==
    CASE pc \in {"new", "set_coord", "intersection"} ->
            IF "x0" \in DOMAIN out THEN {out} ELSE {}
      [] pc \in {"difference", "extensions", "union"} ->
            {out[i] : i \in 1..Len(out)}
      [] pc = "split" ->
            IF "ok" \in DOMAIN out THEN {out.ok[i] : i \in 1..8} ELSE {}
      [] OTHER -> {}

\* C19: every Cuboid value obtained through the public Cuboid operations
\* (new, set_coord, intersection, extensions, difference, union, split)
\* satisfies x0 <= x1, y0 <= y1 and z0 <= z1.
C19_CuboidsWellFormed ==
    \A c \in OutCuboids : c.x0 <= c.x1 /\ c.y0 <= c.y1 /\ c.z0 <= c.z1

\* The members after the calls recorded in h, from an empty PolyCuboid.
RECURSIVE Replay(_)
Replay(h) ==
    IF h = <<>> THEN <<>>
    ELSE LET prev == Replay(SubSeq(h, 1, Len(h) - 1))
             last == h[Len(h)]
         IN  IF last.op = "insert" THEN PolyCuboid_insert(prev, last.box)
             ELSE PolyCuboid_delete(prev, last.box)

\* C17: the skip optimization of insert does not change the result: every
\* insert leaves the member sequence that the same loop leaves when every
\* pass scans all members (skip_i fixed at 0).
C17_SkipDoesNotChangeResult ==
    [][pc' = "insert" =>
        cuboids' = cuboids \o insert_while_noskip(cuboids, <<args'>>)]_vars

\* the last insert ran on three members or more; its first pass found a
\* member clear of the box before one that overlaps it, so that its second
\* pass skipped, and the worklist was cut more than once.
C17_Witness ==
    /\ pc = "insert"
    /\ \E n \in 3..MaxMembers :
        /\ n < Len(cuboids)
        /\ LET prev == SubSeq(cuboids, 1, n)
               r    == insert_pass(prev, 0, 0,
                           [others |-> <<args>>, overlap |-> FALSE,
                            skip_i |-> 0])
           IN  /\ cuboids = PolyCuboid_insert(prev, args)
               /\ r.overlap
               /\ r.skip_i > 0
               /\ Len(r.others) >= 2

\* The step is a call of insert.
InsertStep == Len(hist') = Len(hist) + 1 /\ hist'[Len(hist')].op = "insert"

\* C20: the worklist that insert appends when it leaves its while loop is
\* pairwise disjoint and disjoint from every member the PolyCuboid had.
C20_AppendedPiecesDisjoint ==
    [][InsertStep =>
        /\ Len(cuboids') >= Len(cuboids)
        /\ SubSeq(cuboids', 1, Len(cuboids)) = cuboids
        /\ LET w == SubSeq(cuboids', Len(cuboids) + 1, Len(cuboids'))
           IN  /\ PairwiseDisjoint(w)
               /\ \A i \in 1..Len(cuboids), j \in 1..Len(w) :
                      ~Overlap(cuboids[i], w[j])]_vars

\* the last call was an insert into at least two members that appended at
\* least two pieces cut from a box overlapping a member.
C20_Witness ==
    /\ hist # <<>>
    /\ hist[Len(hist)].op = "insert"
    /\ LET prev == Replay(SubSeq(hist, 1, Len(hist) - 1))
       IN  /\ Len(prev) >= 2
           /\ Len(cuboids) >= Len(prev) + 2
           /\ \E i \in 1..Len(prev) : intersects(prev[i], hist[Len(hist)].box)

\* C18: the 18 on/off operations of simple_test6, all inside [-50,50]^3,
\* applied in order to an empty PolyCuboid, yield volume() = 592902.
C18_RebootVolume ==
    pc = "done" =>
        /\ Len(RebootOps) = 18
        /\ run.k = 19
        /\ out = Ok(592902)

\* part_1 returned after all 18 operations, 4 of them deletes.
C18_Witness ==
    /\ pc = "done"
    /\ run.k = Len(simple_test6) + 1
    /\ Cardinality({n \in 1..Len(RebootOps) : ~RebootOps[n].to_state}) = 4
    /\ Len(cuboids) > 18
    /\ "ok" \in DOMAIN out

\* No two boxes of v intersect, by Cuboid::intersects (the second debug
\* assertion of Cuboid::extensions).
NoneIntersect(v) ==
    \A i, j \in 1..Len(v) : i = j \/ ~intersects(v[i], v[j])

\* C16: for all valid boxes, intersection, extensions, difference, union
\* and volume never fail: no call panics, every Cuboid::new(..).unwrap() of
\* intersection and extensions receives lo <= hi, and both debug assertions
\* of extensions hold (no extension intersects self, no two extensions
\* intersect).
C16_OperationsNeverFail ==
    /\ pc # "panic"
    /\ pc = "intersection" => out # Err
    /\ pc = "extensions" =>
        /\ \A i \in 1..Len(out) : out[i] # Err /\ ~intersects(out[i], a)
        /\ NoneIntersect(out)
    /\ pc = "difference" =>
        \A i \in 1..Len(out) : out[i] # Err
    /\ pc = "union" =>
        \A i \in 1..Len(out) : out[i] # Err

\* The 26 directions: per axis below (-1), equal (0) or above (1) inner,
\* without the all-equal combination.
Directions == ({-1, 0, 1} \X {-1, 0, 1} \X {-1, 0, 1}) \ {<<0, 0, 0>>}

\* The range that direction d takes on one axis, for inner ilo..ihi inside
\* outer olo..ohi.
AxisRange(d, ilo, ihi, olo, ohi) ==
    IF d = -1 THEN <<olo, ilo - 1>>
    ELSE IF d = 0 THEN <<ilo, ihi>>
    ELSE <<ihi + 1, ohi>>

\* The box of direction d for inner a inside outer b.
DirBox(d) ==
    LET x == AxisRange(d[1], a.x0, a.x1, b.x0, b.x1)
        y == AxisRange(d[2], a.y0, a.y1, b.y0, b.y1)
        z == AxisRange(d[3], a.z0, a.z1, b.z0, b.z1)
    IN  [x0 |-> x[1], x1 |-> x[2], y0 |-> y[1], y1 |-> y[2],
         z0 |-> z[1], z1 |-> z[2]]

\* inner a touches the boundary of outer b on a side direction d extends to.
Touches(d) ==
    \/ d[1] = 1 /\ a.x1 = b.x1
    \/ d[1] = -1 /\ a.x0 = b.x0
    \/ d[2] = 1 /\ a.y1 = b.y1
    \/ d[2] = -1 /\ a.y0 = b.y0
    \/ d[3] = 1 /\ a.z1 = b.z1
    \/ d[3] = -1 /\ a.z0 = b.z0

\* C24: with outer.contains(inner), every box of inner.extensions(outer) is
\* contained in outer, each is the box of one of the 26 directions, and a
\* direction is omitted exactly when inner touches outer's boundary on a
\* side that direction extends toward.
C24_ExtensionsInsideOuter ==
    pc = "extensions" =>
        /\ \A i \in 1..Len(out) :
            /\ IsCuboid(out[i])
            /\ contains(b, out[i])
            /\ \A v \in cells(out[i]) : InBox(v, b)
            /\ \E d \in Directions : out[i] = DirBox(d)
        /\ \A d \in Directions :
            (\E i \in 1..Len(out) : out[i] = DirBox(d)) <=> ~Touches(d)

\* inner touches outer on the low x side only: the 9 directions below on x
\* are omitted, the other 17 emitted.
C24_Witness ==
    /\ pc = "extensions"
    /\ a.x0 = b.x0 /\ a.x1 < b.x1
    /\ b.y0 < a.y0 /\ a.y1 < b.y1
    /\ b.z0 < a.z0 /\ a.z1 < b.z1
    /\ Len(out) = 17

\* C26: with outer.contains(inner), inner and the boxes of
\* inner.extensions(outer) tile outer exactly: every unit cell of outer lies
\* in inner or in exactly one extension, never both, and inner.volume() plus
\* the extensions' volumes equals outer.volume().
C26_ExtensionsTileOuter ==
    pc = "extensions" =>
        /\ \A v \in cells(b) :
            Cardinality({i \in 1..Len(out) : InBox(v, out[i])})
                = (IF InBox(v, a) THEN 0 ELSE 1)
        /\ volume(a) + SumVolumes(out) = volume(b)
        /\ Len(out) = Cardinality({d \in Directions : ~Touches(d)})

\* inner is a proper sub-box touching outer on one side, several extensions.
C26_Witness ==
    /\ pc = "extensions"
    /\ a # b
    /\ a.z1 = b.z1 /\ b.z0 < a.z0
    /\ b.x0 < a.x0 /\ a.x1 < b.x1
    /\ Len(out) >= 5
    /\ volume(a) + SumVolumes(out) = volume(b)

\* C25: intersection is commutative and absorbs containment:
\* a.intersection(b) = b.intersection(a), both None or both the same box,
\* and if a.contains(b) then both equal b.
C25_IntersectionCommutes ==
    pc = "intersection" =>
        /\ out = intersection(b, a)
        /\ contains(a, b) => (out = b /\ intersection(b, a) = b)
        /\ contains(b, a) => (out = a /\ intersection(b, a) = a)

\* a contains b properly, with different low x bounds.
C25_Witness ==
    /\ pc = "intersection"
    /\ contains(a, b) /\ a # b /\ a.x0 < b.x0
    /\ out = b

\* C29: the two overlap tests agree: a.intersects(b) is true if and only if
\* a.intersection(b) is Some, in either order of the two boxes.
C29_IntersectsIffIntersection ==
    pc = "intersection" =>
        /\ intersects(a, b) <=> (out # None)
        /\ intersects(b, a) <=> (out # None)
        /\ intersects(a, b) <=> (\E v \in cells(a) : InBox(v, b))

\* boxes that share exactly one layer of cells on z and are apart on no axis.
C29_Witness ==
    /\ pc = "intersection"
    /\ a.z1 = b.z0 /\ a.z0 < a.z1 /\ b.z0 < b.z1
    /\ a.x0 < b.x0 /\ b.x0 <= a.x1
    /\ intersects(a, b)
    /\ out # None

\* C28: the boxes of a.union(b) are pairwise non-intersecting and cover
\* exactly the cells of a or b; their volumes sum to a.volume() +
\* b.volume() minus the volume of a.intersection(b) (0 if none).
C28_UnionExactCover ==
    pc = "union" =>
        /\ \A i \in 1..Len(out) :
            /\ IsCuboid(out[i])
            /\ \A v \in cells(out[i]) : InBox(v, a) \/ InBox(v, b)
        /\ \A i, j \in 1..Len(out) : i = j \/ ~intersects(out[i], out[j])
        /\ \A v \in cells(a) \cup cells(b) :
            Cardinality({i \in 1..Len(out) : InBox(v, out[i])}) = 1
        /\ SumVolumes(out) =
            volume(a) + volume(b)
            - (IF intersection(a, b) = None THEN 0
               ELSE volume(intersection(a, b)))

\* a and b overlap in at least two cells, neither contains the other.
C28_Witness ==
    /\ pc = "union"
    /\ ~contains(a, b) /\ ~contains(b, a)
    /\ intersection(a, b) # None
    /\ volume(intersection(a, b)) >= 2
    /\ SumVolumes(out) < volume(a) + volume(b)
    /\ Len(out) >= 2

\* C30: in difference, re-clipping is a no-op: when a and b intersect and b
\* does not contain a, with I = a.intersection(b), every box ext of
\* I.extensions(a) has a.intersection(ext) = ext, and a.difference(b) equals
\* I.extensions(a) element for element.
C30_ReclipIsNoOp ==
    (pc = "difference" /\ intersects(a, b) /\ ~contains(b, a)) =>
        LET exts == extensions(intersection(a, b), a)
        IN  /\ \A k \in 1..Len(exts) : intersection(a, exts[k]) = exts[k]
            /\ Len(out) = Len(exts)
            /\ \A k \in 1..Len(exts) : out[k] = exts[k]

\* b cuts a corner of a: three or more extensions, all kept whole.
C30_Witness ==
    /\ pc = "difference"
    /\ intersects(a, b) /\ ~contains(b, a) /\ ~contains(a, b)
    /\ Len(out) >= 3
    /\ out = extensions(intersection(a, b), a)

\* The step is a call of delete.
DeleteStep == Len(hist') = Len(hist) + 1 /\ hist'[Len(hist')].op = "delete"

\* The unit cells of the universe of Spec.
PolyCells == PolyCoordX \X PolyCoordYZ \X PolyCoordYZ

\* The indices of the members of cs that hold the unit cell v.
Holders(cs, v) == {i \in 1..Len(cs) : InBox(v, cs[i])}

\* C22: after delete(d) no member intersects d, and every unit cell that was
\* covered before and lies outside d is still covered by exactly one member.
C22_DeleteClearsBox ==
    [][DeleteStep =>
        LET d == hist'[Len(hist')].box
        IN  /\ \A i \in 1..Len(cuboids') :
                /\ ~intersects(cuboids'[i], d)
                /\ ~Overlap(cuboids'[i], d)
            /\ \A v \in PolyCells :
                (Holders(cuboids, v) # {} /\ ~InBox(v, d)) =>
                    Cardinality(Holders(cuboids', v)) = 1]_vars

\* the last call was a delete that cut two or more members and left cells
\* of them covered.
C22_Witness ==
    /\ Len(hist) = 3
    /\ hist[3].op = "delete"
    /\ LET prev == Replay(SubSeq(hist, 1, 2))
       IN  /\ Cardinality({i \in 1..Len(prev) :
                              intersects(prev[i], hist[3].box)}) >= 2
           /\ \E v \in PolyCells :
                Holders(prev, v) # {} /\ ~InBox(v, hist[3].box)
           /\ cuboids = PolyCuboid_delete(prev, hist[3].box)
           /\ cuboids # <<>>

\* The number of pieces that the first n members of cs leave after delete(d).
RECURSIVE PiecesBefore(_, _, _)
PiecesBefore(cs, d, n) ==
    IF n = 0 THEN 0
    ELSE PiecesBefore(cs, d, n - 1) + Len(difference(cs[n], d))

\* C23: delete(d) replaces the member sequence by the concatenation, in
\* member order, of member.difference(d); a member that does not intersect
\* d is kept unchanged in its relative position, and deleting a box disjoint
\* from all members leaves the sequence identical.
C23_DeleteConcatenates ==
    [][DeleteStep =>
        LET d == hist'[Len(hist')].box
            n == Len(cuboids)
        IN  /\ Len(cuboids') = PiecesBefore(cuboids, d, n)
            /\ \A i \in 1..n :
                /\ SubSeq(cuboids', PiecesBefore(cuboids, d, i - 1) + 1,
                          PiecesBefore(cuboids, d, i))
                       = difference(cuboids[i], d)
                /\ ~Overlap(cuboids[i], d) =>
                       /\ PiecesBefore(cuboids, d, i)
                              = PiecesBefore(cuboids, d, i - 1) + 1
                       /\ cuboids'[PiecesBefore(cuboids, d, i)] = cuboids[i]
            /\ (\A i \in 1..n : ~Overlap(cuboids[i], d)) =>
                   cuboids' = cuboids]_vars

\* the last call was a delete that cut the first of three or more members
\* into several pieces and left a later member as it was.
C23_Witness ==
    /\ Len(hist) = 3
    /\ hist[3].op = "delete"
    /\ LET prev == Replay(SubSeq(hist, 1, 2))
           d    == hist[3].box
       IN  /\ Len(prev) >= 3
           /\ Len(difference(prev[1], d)) >= 2
           /\ \E i \in 2..Len(prev) :
                /\ ~intersects(prev[i], d)
                /\ cuboids[PiecesBefore(prev, d, i)] = prev[i]
           /\ cuboids = PolyCuboid_delete(prev, d)

\* C27: insert only appends: the member sequence before insert is a prefix
\* of the member sequence after it, and nothing is appended when the
\* inserted box is already fully covered by the existing members.
C27_InsertOnlyAppends ==
    [][InsertStep =>
        LET c == hist'[Len(hist')].box
        IN  /\ Len(cuboids') >= Len(cuboids)
            /\ \A i \in 1..Len(cuboids) : cuboids'[i] = cuboids[i]
            /\ (\A v \in cells(c) : Holders(cuboids, v) # {}) =>
                   cuboids' = cuboids]_vars

\* the last call inserted a box that no single member contains but two
\* members cover together: nothing was appended.
C27_Witness ==
    /\ Len(hist) = 3
    /\ hist[3].op = "insert"
    /\ LET prev == Replay(SubSeq(hist, 1, 2))
           c    == hist[3].box
       IN  /\ Len(prev) >= 2
           /\ \A i \in 1..Len(prev) : ~contains(prev[i], c)
           /\ \A v \in cells(c) : Holders(prev, v) # {}
           /\ cuboids = prev

\* A bound on the steps insert still takes before it leaves the
\* `while overlap` loop: a pass takes at most Len(cuboids) + 2 steps, and
\* at most one pass more than the volume of the worklist can follow.
LoopRank ==
    LET V    == SumVolumes(run.others)
        L    == Len(cuboids) + 2
        rest == IF run.overlap THEN (V + 1) * L + 1 ELSE 1
    IN  CASE pc = "while overlap" -> rest
          [] pc = "for c" ->
                (Len(cuboids) - (run.skip + run.i) + 1)
                + (IF run.overlap THEN rest ELSE V * L + 1)
          [] OTHER -> 0

\* C21: insert terminates: every step inside insert strictly decreases
\* LoopRank, a natural number that is 0 only outside the loop, so the
\* `while overlap` loop is left after finitely many passes; and each step of
\* the member loop that sets overlap or touches the worklist strictly
\* decreases the total volume of the worklist pieces.
C21_InsertTerminates ==
    [][(pc \in {"while overlap", "for c"}) =>
            /\ LoopRank' < LoopRank
            /\ LoopRank' >= 0
            /\ (pc' = "for op") <=> (LoopRank' = 0)
            /\ run.skip + run.i <= Len(cuboids)
            /\ (pc = "for c" /\ pc' = "for c") =>
                /\ (run'.overlap /\ ~run.overlap) =>
                       SumVolumes(run'.others) < SumVolumes(run.others)
                /\ run'.others # run.others =>
                       /\ run'.overlap
                       /\ SumVolumes(run'.others) < SumVolumes(run.others)
                /\ SumVolumes(run'.others) >= 0]_vars

\* insert is about to leave the loop after passes that cut the inserted box
\* into several pieces against two or more members.
C21_Witness ==
    /\ pc = "while overlap"
    /\ ~run.overlap
    /\ Len(cuboids) >= 2
    /\ Len(run.others) >= 2
    /\ SumVolumes(run.others) < volume(args)

=============================================================================
